---- MODULE Spec2Model ----
(***************************************************************************)
(* State-machine model of the RAG helper layer (RAG/utilities.py) and of   *)
(* the web shell (server/app.py).                                          *)
(*                                                                         *)
(* Four units are modelled, each with its own program counter:             *)
(*   gaPc  - generate_answer   (conversation assembly and dispatch)        *)
(*   srPc  - search_results    (similarity query and client truncation)    *)
(*   mpPc  - mean_pooling      (masked mean over the token axis)           *)
(*   srvPc - server/app.py     (module import, lifespan, /ping)            *)
(* A unit whose counter is "off" is not part of the run under analysis.    *)
(*                                                                         *)
(* Text is modelled as a sequence of tokens, so that "is a substring of"   *)
(* is contiguous-subsequence containment and is decided, not assumed.      *)
(***************************************************************************)
EXTENDS Integers, Sequences, FiniteSets

VARIABLES
    \* ---- generate_answer
    SYSTEM_PROMPT,  \* config.SYSTEM_PROMPT, fixed for the process
    gaPc,           \* position inside generate_answer
    chat,           \* argument: list of prior turns
    document,       \* argument: document text
    conversation,   \* local: the Conversation's message list
    gaI,            \* loop index of `for message in chat` (1-based)
    injectedAt,     \* history: indices (1-based) written by the `if document` branch
    sent,           \* history: the conversation as received by the backend
    backendCalls,   \* history: number of chatbot(...) calls of this invocation
    answer,         \* return value of generate_answer
    \* ---- search_results
    srPc, table, vector, limit, res,
    \* ---- mean_pooling
    mpPc, token_embeddings, attention_mask, pooled,
    \* ---- server/app.py
    srvPc, dbError, log, appCreated, stateModel, pending, responses

gaVars  == <<SYSTEM_PROMPT, gaPc, chat, document, conversation, gaI, injectedAt,
             sent, backendCalls, answer>>
srVars  == <<srPc, table, vector, limit, res>>
mpVars  == <<mpPc, token_embeddings, attention_mask, pooled>>
srvVars == <<srvPc, dbError, log, appCreated, stateModel, pending, responses>>
vars    == <<gaVars, srVars, mpVars, srvVars>>

Min(a, b) == IF a < b THEN a ELSE b

\* All sequences over S of length lo..hi.
SeqsBetween(S, lo, hi) == UNION {[1..n -> S] : n \in lo..hi}

\* needle occurs in hay as a contiguous run (Python's `needle in hay`).
Contains(hay, needle) ==
    \E k \in 0..(Len(hay) - Len(needle)) :
        \A j \in 1..Len(needle) : hay[k + j] = needle[j]

\* Python's None where a message is expected.
NoMessage == [role |-> "none", content |-> <<>>]

(***************************************************************************)
(* generate_answer                                                         *)
(***************************************************************************)
MaxChat == 2
MaxDocLen == 2

Roles == {"system", "user", "assistant"}

\* The literal assigned to document_template. The code never calls
\* .format on it, so the placeholder token stays in the message as is.
DocumentTemplate == <<"CONTEXT:", "{document}", "ANSWER_IN_RUSSIAN", "VOPROS:">>

Prompts   == {<<"SYS">>, <<"SYS", "x">>}
DocTokens == {"x", "y"}
Documents == SeqsBetween(DocTokens, 0, MaxDocLen)
Contents  == {<<"x">>, <<"y">>, DocumentTemplate}
Turns     == [role : Roles, content : Contents]
Chats     == SeqsBetween(Turns, 0, MaxChat)
Replies   == {<<"x">>, <<"r">>}

\* Conversation.add_message: append to the message list.
add_message(conv, message) == Append(conv, message)

\* Faulty variant: the branch is taken for every document.
DocumentGiven_Always(doc) == TRUE
\* `if document:` - truthiness of a str.
DocumentGiven(doc) == doc # <<>>

\* Faulty variant: every prior turn is attributed to the user.
CopyTurn_DropRole(message) == [role |-> "user", content |-> message.content]
\* The message built inside the loop body from message["role"], message["content"].
CopyTurn(message) == [role |-> message.role, content |-> message.content]

\* Faulty variant: the first message is returned.
LastMessage_First(conv) == conv[1]
\* conversation[-1]
LastMessage(conv) == conv[Len(conv)]

\* The generation backend: returns the conversation with one new
\* assistant message appended.
chatbot(conv, reply) == add_message(conv, [role |-> "assistant", content |-> reply])

\* The process configuration and the arguments of one call.
GAInit ==
    /\ SYSTEM_PROMPT \in Prompts
    /\ gaPc = "idle"
    /\ chat \in Chats
    /\ document \in Documents
    /\ conversation = <<>>
    /\ gaI = 1
    /\ injectedAt = {}
    /\ sent = <<>>
    /\ backendCalls = 0
    /\ answer = NoMessage

GAOff ==
    /\ SYSTEM_PROMPT = <<"SYS">>
    /\ gaPc = "off"
    /\ chat = <<>>
    /\ document = <<>>
    /\ conversation = <<>>
    /\ gaI = 1
    /\ injectedAt = {}
    /\ sent = <<>>
    /\ backendCalls = 0
    /\ answer = NoMessage

\* Entry, Conversation(), and the system message.
GA_Begin ==
    /\ gaPc = "idle"
    /\ conversation' = add_message(<<>>, [role |-> "system", content |-> SYSTEM_PROMPT])
    /\ gaPc' = "document"
    /\ UNCHANGED <<SYSTEM_PROMPT, chat, document, gaI, injectedAt, sent,
                   backendCalls, answer>>
    /\ UNCHANGED <<srVars, mpVars, srvVars>>

\* Faulty variant: the context message is put in front of the system message.
GA_AddDocument_Front ==
    /\ gaPc = "document"
    /\ IF DocumentGiven(document)
         THEN /\ conversation' = <<[role |-> "user", content |-> DocumentTemplate]>>
                                     \o conversation
              /\ injectedAt' = injectedAt \cup {1}
         ELSE UNCHANGED <<conversation, injectedAt>>
    /\ gaPc' = "loop"
    /\ UNCHANGED <<SYSTEM_PROMPT, chat, document, gaI, sent, backendCalls, answer>>
    /\ UNCHANGED <<srVars, mpVars, srvVars>>

\* `if document:` and the template message.
GA_AddDocument ==
    /\ gaPc = "document"
    /\ IF DocumentGiven(document)
         THEN /\ conversation' = add_message(conversation,
                                     [role |-> "user", content |-> DocumentTemplate])
              /\ injectedAt' = injectedAt \cup {Len(conversation) + 1}
         ELSE UNCHANGED <<conversation, injectedAt>>
    /\ gaPc' = "loop"
    /\ UNCHANGED <<SYSTEM_PROMPT, chat, document, gaI, sent, backendCalls, answer>>
    /\ UNCHANGED <<srVars, mpVars, srvVars>>

\* One iteration of `for message in chat`.
GA_AddTurn ==
    /\ gaPc = "loop"
    /\ gaI <= Len(chat)
    /\ conversation' = add_message(conversation, CopyTurn(chat[gaI]))
    /\ gaI' = gaI + 1
    /\ UNCHANGED <<SYSTEM_PROMPT, gaPc, chat, document, injectedAt, sent,
                   backendCalls, answer>>
    /\ UNCHANGED <<srVars, mpVars, srvVars>>

\* Loop exhausted: the single chatbot(...) call; the backend's result is
\* bound to `conversation`.
GA_Dispatch ==
    /\ gaPc = "loop"
    /\ gaI > Len(chat)
    /\ sent' = conversation
    /\ backendCalls' = backendCalls + 1
    /\ \E reply \in Replies : conversation' = chatbot(conversation, reply)
    /\ gaPc' = "generated"
    /\ UNCHANGED <<SYSTEM_PROMPT, chat, document, gaI, injectedAt, answer>>
    /\ UNCHANGED <<srVars, mpVars, srvVars>>

\* return conversation[-1]
GA_Return ==
    /\ gaPc = "generated"
    /\ answer' = LastMessage(conversation)
    /\ gaPc' = "returned"
    /\ UNCHANGED <<SYSTEM_PROMPT, chat, document, conversation, gaI, injectedAt,
                   sent, backendCalls>>
    /\ UNCHANGED <<srVars, mpVars, srvVars>>

NextAnswer ==
    \/ GA_Begin
    \/ GA_AddDocument
    \/ GA_AddTurn
    \/ GA_Dispatch
    \/ GA_Return

(***************************************************************************)
(* search_results                                                          *)
(*                                                                         *)
(* Vectors are non-zero and axis-aligned with integer components, so that  *)
(* the norm and the cosine are integers and cosineDistance is exact.       *)
(***************************************************************************)
MaxRows == 3
MaxLimit == 4

Abs(x) == IF x < 0 THEN -x ELSE x

Embeddings   == {<<1, 0>>, <<0, 1>>, <<-1, 0>>, <<2, 0>>}
QueryVectors == {<<1, 0>>, <<0, 2>>, <<-3, 0>>}
Tables       == SeqsBetween(Embeddings, 0, MaxRows)

\* The stored row whose Embedding is table[i]; the other columns are
\* distinct per row and per column.
StoredRow(t, i) ==
    [Name |-> i, Url |-> 10 + i, Date |-> 20 + i, Number |-> 30 + i,
     Text |-> 40 + i, Embedding |-> t[i]]

\* str(float(i)) for an integer-valued component: sign, integer part, ".0".
FloatStr(i) == [neg |-> i < 0, int |-> Abs(i), frac |-> 0]

\* ",".join([str(float(i)) for i in vector])
VectorLiteral(v) == [k \in 1..Len(v) |-> FloatStr(v[k])]

\* The datastore reading the literal back.
ParseVector(lit) ==
    [k \in 1..Len(lit) |-> (IF lit[k].neg THEN -1 ELSE 1) * lit[k].int]

Dot(a, b)  == a[1] * b[1] + a[2] * b[2]
Norm(a)    == Abs(a[1]) + Abs(a[2])
\* cosineDistance(a, b) = 1 - a.b / (|a| |b|)
cosineDistance(a, b) == 1 - (Dot(a, b) \div (Norm(a) * Norm(b)))

Permutations(n) == {p \in [1..n -> 1..n] : \A i, j \in 1..n : i # j => p[i] # p[j]}

\* ORDER BY score DESC: s1 may precede s2.
OrderBy(s1, s2) == s1 >= s2

\* The SELECT: the row streams the datastore may produce. Rows with equal
\* score come in any order.
Query(t, lit, lim) ==
    LET q        == ParseVector(lit)
        score(i) == cosineDistance(q, t[i])
        n        == Len(t)
        ordered  == {p \in Permutations(n) :
                        \A k \in 1..(n - 1) : OrderBy(score(p[k]), score(p[k + 1]))}
        item(i)  == LET r == StoredRow(t, i)
                    IN <<r.Name, r.Url, r.Date, r.Number, r.Text, score(i)>>
    IN {[k \in 1..Min(lim, n) |-> item(p[k])] : p \in ordered}

\* name, url, date, num, text, score = item; and the dict appended to res.
ResultRecord(item) ==
    [name |-> item[1], url |-> item[2], date |-> item[3], num |-> item[4],
     text |-> item[5], dist |-> item[6]]

\* Faulty variant: res[:limit - 1].
Truncate_OffByOne(r, lim) == SubSeq(r, 1, Min(lim - 1, Len(r)))
\* res[:limit], limit >= 0.
Truncate(r, lim) == SubSeq(r, 1, Min(lim, Len(r)))

\* The stored table and the arguments of one call.
SRInit ==
    /\ srPc = "idle"
    /\ table \in Tables
    /\ vector \in QueryVectors
    /\ limit \in 0..MaxLimit
    /\ res = <<>>

SROff ==
    /\ srPc = "off"
    /\ table = <<>>
    /\ vector = <<1, 0>>
    /\ limit = 0
    /\ res = <<>>

\* The call of search_results.
SearchResults ==
    /\ srPc = "idle"
    /\ \E stream \in Query(table, VectorLiteral(vector), limit) :
        res' = Truncate([k \in 1..Len(stream) |-> ResultRecord(stream[k])], limit)
    /\ srPc' = "returned"
    /\ UNCHANGED <<table, vector, limit>>
    /\ UNCHANGED <<gaVars, mpVars, srvVars>>

NextSearch == SearchResults

(***************************************************************************)
(* mean_pooling                                                            *)
(*                                                                         *)
(* One batch row: token_embeddings is a sequence over the token axis of    *)
(* vectors indexed by Dims. Quotients are kept as fractions [num, den].    *)
(***************************************************************************)
MaxTokens == 3
EpsInv == 1000000000   \* min=1e-9 is 1 / EpsInv

Dims       == {1, 2}
Values     == {-1, 0, 1}
TokenVecs  == [Dims -> Values]
MaskValues == {0, 1}

RECURSIVE SumOver(_, _)
\* torch.sum over the token axis: sum of f[t] for t in 1..n.
SumOver(f, n) == IF n = 0 THEN 0 ELSE SumOver(f, n - 1) + f[n]

\* attention_mask.unsqueeze(-1).expand(token_embeddings.size()).float()
Expand(emb, mask) == [t \in 1..Len(emb) |-> [d \in Dims |-> mask[t]]]

\* torch.clamp(x, min=1e-9) for an integer-valued x: an integer below 1e-9
\* is an integer below 1.
Clamp(x) == IF x < 1 THEN [num |-> 1, den |-> EpsInv] ELSE [num |-> x, den |-> 1]

\* s / m for an integer s and a positive fraction m.
Divide(s, m) == [num |-> s * m.den, den |-> m.num]

\* Faulty variant: the denominator counts every token slot.
SumMask_AllTokens(expanded, d) == Clamp(Len(expanded))
\* torch.clamp(input_mask_expanded.sum(1), min=1e-9), component d.
SumMask(expanded, d) ==
    Clamp(SumOver([t \in 1..Len(expanded) |-> expanded[t][d]], Len(expanded)))

\* torch.sum(token_embeddings * input_mask_expanded, 1), component d.
SumEmbeddings(emb, expanded, d) ==
    SumOver([t \in 1..Len(emb) |-> emb[t][d] * expanded[t][d]], Len(emb))

mean_pooling(emb, mask) ==
    LET input_mask_expanded == Expand(emb, mask)
    IN [d \in Dims |-> Divide(SumEmbeddings(emb, input_mask_expanded, d),
                              SumMask(input_mask_expanded, d))]

NoVector == [d \in Dims |-> [num |-> 0, den |-> 1]]

\* The arguments of one call: a padded token sequence and its mask.
MPInit ==
    /\ mpPc = "idle"
    /\ \E n \in 1..MaxTokens :
        /\ token_embeddings \in [1..n -> TokenVecs]
        /\ attention_mask \in [1..n -> MaskValues]
    /\ pooled = NoVector

MPOff ==
    /\ mpPc = "off"
    /\ token_embeddings = <<>>
    /\ attention_mask = <<>>
    /\ pooled = NoVector

\* The call of mean_pooling.
MeanPooling ==
    /\ mpPc = "idle"
    /\ pooled' = mean_pooling(token_embeddings, attention_mask)
    /\ mpPc' = "returned"
    /\ UNCHANGED <<token_embeddings, attention_mask>>
    /\ UNCHANGED <<gaVars, srVars, srvVars>>

NextPool == MeanPooling

(***************************************************************************)
(* server/app.py                                                           *)
(***************************************************************************)
MaxRequests == 4

ConnectErrors == {"refused", "auth"}
CursorErrors  == {"closed"}
ExecuteErrors == {"timeout", "denied"}

NoError == "none"
Unset   == "unset"     \* router.state has no attribute `model`
Object  == "object"    \* the value of object()

\* The body returned by ping().
Pong == [message |-> "pong!"]

SrvInit ==
    /\ srvPc = "import"
    /\ dbError = NoError
    /\ log = <<>>
    /\ appCreated = FALSE
    /\ stateModel = Unset
    /\ pending = 0
    /\ responses = <<>>

SrvOff ==
    /\ srvPc = "off"
    /\ dbError = NoError
    /\ log = <<>>
    /\ appCreated = FALSE
    /\ stateModel = Unset
    /\ pending = 0
    /\ responses = <<>>

\* The imports at the top of the module.
Srv_Import ==
    /\ srvPc = "import"
    /\ srvPc' = "get_connection"
    /\ UNCHANGED <<dbError, log, appCreated, stateModel, pending, responses>>
    /\ UNCHANGED <<gaVars, srVars, mpVars>>

\* try: connection = database.get_connection()
Srv_GetConnection ==
    /\ srvPc = "get_connection"
    /\ \/ /\ srvPc' = "cursor"
          /\ UNCHANGED dbError
       \/ /\ \E e \in ConnectErrors : dbError' = e
          /\ srvPc' = "except"
    /\ UNCHANGED <<log, appCreated, stateModel, pending, responses>>
    /\ UNCHANGED <<gaVars, srVars, mpVars>>

\* cursor = connection.cursor()
Srv_Cursor ==
    /\ srvPc = "cursor"
    /\ \/ /\ srvPc' = "execute"
          /\ UNCHANGED dbError
       \/ /\ \E e \in CursorErrors : dbError' = e
          /\ srvPc' = "except"
    /\ UNCHANGED <<log, appCreated, stateModel, pending, responses>>
    /\ UNCHANGED <<gaVars, srVars, mpVars>>

\* cursor.execute("SELECT version();") and print("Database connected")
Srv_Execute ==
    /\ srvPc = "execute"
    /\ \/ /\ log' = Append(log, <<"Database connected", "">>)
          /\ srvPc' = "app"
          /\ UNCHANGED dbError
       \/ /\ \E e \in ExecuteErrors : dbError' = e
          /\ srvPc' = "except"
          /\ UNCHANGED log
    /\ UNCHANGED <<appCreated, stateModel, pending, responses>>
    /\ UNCHANGED <<gaVars, srVars, mpVars>>

\* Faulty variant: the handler logs and re-raises, ending the process.
Srv_Except_Reraise ==
    /\ srvPc = "except"
    /\ log' = Append(log, <<"Dataabase error: ", dbError>>)
    /\ srvPc' = "aborted"
    /\ UNCHANGED <<dbError, appCreated, stateModel, pending, responses>>
    /\ UNCHANGED <<gaVars, srVars, mpVars>>

\* except Exception as e: print("Dataabase error: ", str(e))
Srv_Except ==
    /\ srvPc = "except"
    /\ log' = Append(log, <<"Dataabase error: ", dbError>>)
    /\ srvPc' = "app"
    /\ UNCHANGED <<dbError, appCreated, stateModel, pending, responses>>
    /\ UNCHANGED <<gaVars, srVars, mpVars>>

\* def lifespan, app = FastAPI(lifespan=lifespan), @app.get("/ping")
Srv_CreateApp ==
    /\ srvPc = "app"
    /\ appCreated' = TRUE
    /\ srvPc' = "created"
    /\ UNCHANGED <<dbError, log, stateModel, pending, responses>>
    /\ UNCHANGED <<gaVars, srVars, mpVars>>

\* lifespan up to its yield.
Srv_LifespanStartup ==
    /\ srvPc = "created"
    /\ stateModel' = Object
    /\ log' = Append(log, <<"ML model loaded", "">>)
    /\ srvPc' = "serving"
    /\ UNCHANGED <<dbError, appCreated, pending, responses>>
    /\ UNCHANGED <<gaVars, srVars, mpVars>>

\* A GET /ping is accepted by the running application.
Srv_Request ==
    /\ srvPc = "serving"
    /\ pending + Len(responses) < MaxRequests
    /\ pending' = pending + 1
    /\ UNCHANGED <<srvPc, dbError, log, appCreated, stateModel, responses>>
    /\ UNCHANGED <<gaVars, srVars, mpVars>>

\* ping() handles one accepted request.
Srv_Ping ==
    /\ srvPc = "serving"
    /\ pending > 0
    /\ pending' = pending - 1
    /\ responses' = Append(responses, Pong)
    /\ UNCHANGED <<srvPc, dbError, log, appCreated, stateModel>>
    /\ UNCHANGED <<gaVars, srVars, mpVars>>

\* lifespan after its yield, once no request is in flight.
Srv_LifespanShutdown ==
    /\ srvPc = "serving"
    /\ pending = 0
    /\ log' = Append(log, <<"ML model unloaded", "">>)
    /\ srvPc' = "stopped"
    /\ UNCHANGED <<dbError, appCreated, stateModel, pending, responses>>
    /\ UNCHANGED <<gaVars, srVars, mpVars>>

NextServer ==
    \/ Srv_Import
    \/ Srv_GetConnection
    \/ Srv_Cursor
    \/ Srv_Execute
    \/ Srv_Except
    \/ Srv_CreateApp
    \/ Srv_LifespanStartup
    \/ Srv_Request
    \/ Srv_Ping
    \/ Srv_LifespanShutdown

(***************************************************************************)
(* Specifications                                                          *)
(***************************************************************************)
\* One unit is under analysis in a run.
InitAnswer == GAInit /\ SROff /\ MPOff /\ SrvOff
InitSearch == GAOff /\ SRInit /\ MPOff /\ SrvOff
InitPool   == GAOff /\ SROff /\ MPInit /\ SrvOff
InitServer == GAOff /\ SROff /\ MPOff /\ SrvInit

Init == InitAnswer \/ InitSearch \/ InitPool \/ InitServer

Next == NextAnswer \/ NextSearch \/ NextPool \/ NextServer

Spec == Init /\ [][Next]_vars

SpecAnswer == InitAnswer /\ [][NextAnswer]_vars
SpecSearch == InitSearch /\ [][NextSearch]_vars
SpecPool   == InitPool /\ [][NextPool]_vars
SpecServer == InitServer /\ [][NextServer]_vars

(***************************************************************************)
(* Properties of generate_answer  (checked under SpecAnswer)               *)
(***************************************************************************)
\* The conversation has been handed to the backend.
Dispatched == gaPc \in {"generated", "returned"}

SystemIndices(conv) == {i \in 1..Len(conv) : conv[i].role = "system"}

\* C1 as stated: the conversation handed to the backend holds exactly one
\* message with role "system", at index 0, and at most one context-injection
\* message, at index 1 (0-based), whatever the roles of the prior turns.
C1_ExactlyOneSystemMessage ==
    Dispatched =>
        /\ Cardinality(SystemIndices(sent)) = 1
        /\ sent[1].role = "system"
        /\ injectedAt \subseteq {2}

\* C1 amended: message 0 is the system prompt; the system-role messages are
\* that one plus one per prior turn whose role is "system" (so exactly one
\* when no prior turn has that role); at most one context-injection message,
\* at index 1 (0-based), before every prior turn.
C1_SystemPromptFirst ==
    Dispatched =>
        /\ sent[1] = [role |-> "system", content |-> SYSTEM_PROMPT]
        /\ Cardinality(SystemIndices(sent)) = 1 + Cardinality(SystemIndices(chat))
        /\ injectedAt \subseteq {2}
        /\ \A i \in injectedAt :
              /\ i <= Len(sent) - Len(chat)
              /\ sent[i] = [role |-> "user", content |-> DocumentTemplate]

C1_Witness ==
    /\ gaPc = "returned"
    /\ SystemIndices(chat) # {}
    /\ injectedAt = {2}
    /\ Cardinality(SystemIndices(sent)) > 1

\* C2: with a non-empty document, message 1 (0-based) of the conversation
\* handed to the backend contains the document text as a substring, and the
\* CONTEXT and question markers.
C2_DocumentEmbedded ==
    (Dispatched /\ document # <<>>) =>
        /\ Len(sent) >= 2
        /\ Contains(sent[2].content, document)
        /\ Contains(sent[2].content, <<"CONTEXT:">>)
        /\ Contains(sent[2].content, <<"VOPROS:">>)

\* C5: the suffix of the assembled conversation equals chat element by
\* element: every prior turn, role and content, in the original order.
C5_TurnsPreserved ==
    Dispatched =>
        LET off == Len(sent) - Len(chat)
        IN /\ off >= 1
           /\ \A i \in 1..Len(chat) : sent[off + i] = chat[i]

C5_Witness ==
    /\ gaPc = "returned"
    /\ Len(chat) >= 2
    /\ chat[1].role # chat[2].role
    /\ chat[1].role # "user"
    /\ document # <<>>

\* C6: a context message is inserted iff the document is non-empty; the
\* conversation has 1 + len(chat) messages without it and 2 + len(chat)
\* with it.
C6_ContextIffDocument ==
    Dispatched =>
        /\ (injectedAt # {}) <=> (document # <<>>)
        /\ Len(sent) = (IF document = <<>> THEN 1 ELSE 2) + Len(chat)

C6_Witness ==
    /\ gaPc = "returned"
    /\ document = <<>>
    /\ chat = <<>>
    /\ Len(sent) = 1

\* C8: one backend call per invocation, and the value returned is the last
\* message of the backend's conversation, which lies beyond the echoed input.
C8_ReturnsNewTurn ==
    /\ backendCalls <= 1
    /\ Dispatched => backendCalls = 1
    /\ gaPc = "returned" =>
          /\ Len(conversation) = Len(sent) + 1
          /\ SubSeq(conversation, 1, Len(sent)) = sent
          /\ answer = conversation[Len(sent) + 1]

C8_Witness ==
    /\ gaPc = "returned"
    /\ Len(sent) >= 3
    /\ answer.role = "assistant"
    /\ \E i \in 1..Len(sent) : sent[i].content = answer.content

(***************************************************************************)
(* Properties of search_results  (checked under SpecSearch)                *)
(***************************************************************************)
\* C3: for every limit >= 0 and every table size N the call returns exactly
\* min(limit, N) records; in particular none for limit = 0.
C3_ResultBounded ==
    srPc = "returned" => Len(res) = Min(limit, Len(table))

C3_Witness ==
    /\ srPc = "returned"
    /\ limit >= 2
    /\ Len(table) > limit
    /\ Len(res) = limit

\* Distance of stored row i from the query vector.
StoredDistance(i) == cosineDistance(vector, table[i])

\* C4: the records returned are the `limit` stored rows closest to the query
\* vector, in order of non-decreasing cosine distance.
C4_ClosestFirst ==
    srPc = "returned" =>
        /\ \A k \in 1..(Len(res) - 1) : res[k].dist <= res[k + 1].dist
        /\ \A k \in 1..Len(res) : \A i \in 1..Len(table) :
              (\A j \in 1..Len(res) : res[j].name # i) => res[k].dist <= StoredDistance(i)

(***************************************************************************)
(* Properties of mean_pooling  (checked under SpecPool)                    *)
(***************************************************************************)
ValidPositions == {t \in 1..Len(attention_mask) : attention_mask[t] = 1}

RECURSIVE SetSum(_, _)
\* Sum of token_embeddings[t][d] over the positions t in T.
SetSum(T, d) ==
    IF T = {} THEN 0
    ELSE LET t == CHOOSE x \in T : TRUE
         IN token_embeddings[t][d] + SetSum(T \ {t}, d)

\* Equality of fractions.
SameFraction(a, b) == a.num * b.den = b.num * a.den

\* C7: per dimension the pooled value is the arithmetic mean of the
\* embeddings at the valid positions, it does not change when a value at a
\* masked position changes, and an all-padding input gives zero.
C7_MaskedMean ==
    mpPc = "returned" =>
        \A d \in Dims :
            LET n == Cardinality(ValidPositions)
            IN /\ pooled[d].den > 0
               /\ n > 0 => pooled[d].num * n = SetSum(ValidPositions, d) * pooled[d].den
               /\ n = 0 => pooled[d].num = 0
               /\ \A t \in (1..Len(attention_mask)) \ ValidPositions : \A v \in Values :
                     SameFraction(
                         mean_pooling([token_embeddings EXCEPT ![t][d] = v],
                                      attention_mask)[d],
                         pooled[d])

C7_Witness ==
    /\ mpPc = "returned"
    /\ Len(attention_mask) = 3
    /\ attention_mask[1] = 1 /\ attention_mask[2] = 1 /\ attention_mask[3] = 0
    /\ token_embeddings[1][1] = 1 /\ token_embeddings[2][1] = 0
    /\ token_embeddings[3][1] = -1
    /\ pooled[1].num = 1 /\ pooled[1].den = 2

(***************************************************************************)
(* Properties of server/app.py  (checked under SpecServer)                 *)
(***************************************************************************)
Logged(line) == \E i \in 1..Len(log) : log[i] = line

\* C9: a datastore failure at startup is logged and does not end the
\* process: the application is created, the lifespan runs, and every /ping
\* is answered with {"message": "pong!"}, with or without a connection.
C9_StartupSurvivesDbFailure ==
    /\ srvPc # "aborted"
    /\ (dbError # NoError /\ srvPc # "except") => Logged(<<"Dataabase error: ", dbError>>)
    /\ srvPc \in {"created", "serving", "stopped"} => appCreated
    /\ srvPc \in {"serving", "stopped"} => Logged(<<"ML model loaded", "">>)
    /\ \A i \in 1..Len(responses) : responses[i] = Pong
    /\ (pending > 0 \/ responses # <<>>) => srvPc \in {"serving", "stopped"}

C9_Witness ==
    /\ dbError # NoError
    /\ srvPc = "serving"
    /\ appCreated
    /\ Len(responses) >= 1

\* C10: the model slot is set before any request is served, is not replaced
\* while serving, and is no longer held once the shutdown phase is over.
C10_ModelReleasedAtShutdown ==
    /\ (pending > 0 \/ responses # <<>>) => stateModel = Object
    /\ srvPc = "serving" => stateModel = Object
    /\ srvPc = "stopped" => stateModel = Unset

====
